---- MODULE Spec2Model ----
(***************************************************************************)
(* Matchup & Fairness Engine (matchup_engine.py): the win-rate oracle, the *)
(* fairness map, the weight profile, the fit scorer, the opponent          *)
(* recommender and the batch generator, as a state machine.                *)
(*                                                                         *)
(* Numbers.  The engine computes with Python floats; the model computes    *)
(* with exact rationals <<n, d>> (d > 0, lowest terms), so 0.4 is <<2,5>>  *)
(* and 1.7 is <<17,10>>.  Rounding of the binary representation is not     *)
(* modelled.                                                               *)
(***************************************************************************)
EXTENDS Integers, Naturals, Sequences, FiniteSets, Bags, TLC

VARIABLES
    fighters_db,        \* self.fighters_db: the catalog, a sequence of fighters
    win_rate_matrix,    \* self.win_rate_matrix: id -> (id -> percentage)
    fairness_map,       \* self.fairness_map: id -> set of ids (keys with a non-empty set)
    WEIGHT_FIT,         \* self.WEIGHT_FIT
    WEIGHT_FAIRNESS,    \* self.WEIGHT_FAIRNESS
    pc,                 \* position of the caller: "idle", "returned", "batch_loop"
    call,               \* the call in progress or just returned: operation, arguments, result
    candidates,         \* recommend_opponents: the scored candidates, sorted
    all_candidates,     \* generate_batch: the sorted master list of scored pairs
    results,            \* generate_batch: the batch built so far, up to the order of
                        \* its entries (a bag): no step reads the order
    batch_p1_counts,    \* generate_batch: id -> times used as p1
    batch_opp_counts,   \* generate_batch: id -> times used as opp
    remaining,          \* generate_batch: iterations of `for _ in range(quantity)` left
    P1_POOL_SIZE,       \* self.P1_POOL_SIZE
    OPP_POOL_SIZE,      \* self.OPP_POOL_SIZE
    p1_elite,           \* generate_fair_pools: the entries picked for side A so far
    opp_elite,          \* generate_fair_pools: the entries picked for side B so far
    writers,            \* threads between the two assignments of set_mode: thread ->
                        \* the fit weight it has yet to assign; and, as history,
                        \* whether two threads have been inside set_mode at once
    scorer              \* a thread inside a scoring loop: its position, the weights
                        \* it has read and, as history, whether a set_mode statement
                        \* ran while the call was under way

vars == <<fighters_db, win_rate_matrix, fairness_map, WEIGHT_FIT, WEIGHT_FAIRNESS,
          pc, call, candidates, all_candidates, results, batch_p1_counts, batch_opp_counts,
          remaining, P1_POOL_SIZE, OPP_POOL_SIZE, p1_elite, opp_elite, writers, scorer>>

sizes == <<P1_POOL_SIZE, OPP_POOL_SIZE>>
engine == <<fighters_db, win_rate_matrix, fairness_map, sizes>>
weights == <<WEIGHT_FIT, WEIGHT_FAIRNESS>>
batch == <<all_candidates, results, batch_p1_counts, batch_opp_counts, remaining>>
locals == <<candidates, batch>>
elite == <<p1_elite, opp_elite>>
threads == <<writers, scorer>>

----------------------------------------------------------------------------
(* Exact rational arithmetic *)

Abs(i) == IF i < 0 THEN -i ELSE i

RECURSIVE Gcd(_, _)
Gcd(a, b) == IF b = 0 THEN a ELSE Gcd(b, a % b)

\* the rational n/d in lowest terms with a positive denominator
Rat(n, d) ==
    LET s == IF d < 0 THEN -1 ELSE 1
        g == Gcd(Abs(n), Abs(d))
    IN  <<(s * n) \div g, (s * d) \div g>>

Int2R(i) == <<i, 1>>

\* sums and comparisons over the least common denominator, products with the
\* common factors cancelled first, so that intermediate values stay small
RAdd(x, y) ==
    LET g == Gcd(x[2], y[2])
    IN  Rat(x[1] * (y[2] \div g) + y[1] * (x[2] \div g), (x[2] \div g) * y[2])
RSub(x, y) == RAdd(x, <<-y[1], y[2]>>)
RMul(x, y) ==
    LET g1 == Gcd(Abs(x[1]), y[2])
        g2 == Gcd(Abs(y[1]), x[2])
    IN  IF x[1] = 0 \/ y[1] = 0 THEN <<0, 1>>
        ELSE Rat((x[1] \div g1) * (y[1] \div g2), (x[2] \div g2) * (y[2] \div g1))
RDiv(x, y) == RMul(x, IF y[1] < 0 THEN <<-y[2], -y[1]>> ELSE <<y[2], y[1]>>)
RLt(x, y) ==
    LET g == Gcd(x[2], y[2])
    IN  x[1] * (y[2] \div g) < y[1] * (x[2] \div g)
RLe(x, y) ==
    LET g == Gcd(x[2], y[2])
    IN  x[1] * (y[2] \div g) <= y[1] * (x[2] \div g)
RAbs(x) == <<Abs(x[1]), x[2]>>

Zero == Int2R(0)
One == Int2R(1)
Fifty == Int2R(50)
Hundred == Int2R(100)

----------------------------------------------------------------------------
(* Data *)

\* how many of TagNames, WinValues' table entries, pool slots and picks the model uses
NumTags == 2
MaxEntries == 2
MaxPool == 3
MaxQuantity == 3
MaxBatch == 7
MaxFairPool == 4
MaxWriters == 2
MaxReads == 2

TagNames == <<"aggressive", "defensive", "zoning", "setup">>
Tags == {TagNames[i] : i \in 1..NumTags}

\* a value of a fighter's 'range' field or of a range preference:
\* a string, an integer, or nothing (a missing field, None)
Str(s) == [t |-> "str", s |-> s, i |-> 0]
Num(i) == [t |-> "int", s |-> "", i |-> i]
None == [t |-> "none", s |-> "", i |-> 0]

Fighter(id, major, minor, range) ==
    [id |-> id, major |-> major, minor |-> minor, range |-> range]

\* the catalog of the tests' fixture, its playstyles held as major / minor tags
alpha == Fighter("alpha", {"aggressive"}, {}, Str("Melee"))
bravo == Fighter("bravo", {"defensive"}, {}, Str("Reach"))
charlie == Fighter("charlie", {"aggressive"}, {"defensive"}, Str("Hybrid"))
Catalog == <<alpha, bravo, charlie>>

Ids == {"alpha", "bravo", "charlie"}
QueryIds == Ids \cup {"unknown"}

\* win percentages in [0,100]: the extremes, non-integers next to them, the
\* limits of the code's test, and ordinary values
WinValues == {Zero, Rat(1, 2), One, Int2R(40), Int2R(60), Int2R(99), Rat(199, 2), Hundred}

\* the nested dict built from a partial function on ordered pairs
MatrixOf(f) ==
    [a \in {p[1] : p \in DOMAIN f} |->
        [b \in {p[2] : p \in {q \in DOMAIN f : q[1] = a}} |-> f[<<a, b>>]]]

OrderedPairs == {p \in Ids \X Ids : p[1] # p[2]}

\* every table with at most n recorded entries
Tables(n) ==
    UNION {UNION {{MatrixOf(f) : f \in [P -> WinValues]} :
                    P \in {Q \in SUBSET OrderedPairs : Cardinality(Q) = k}} : k \in 0..n}

----------------------------------------------------------------------------
(* WinRateOracle and FairnessIndex *)

InMatrix(m, a, b) == a \in DOMAIN m /\ b \in DOMAIN m[a]

\* a variant that looks up the reverse entry first
ReverseFirst_get_win_rate(m, id_a, id_b) ==
    IF InMatrix(m, id_b, id_a) THEN RSub(Hundred, m[id_b][id_a])
    ELSE IF InMatrix(m, id_a, id_b) THEN m[id_a][id_b]
    ELSE Fifty

_get_win_rate(m, id_a, id_b) ==
    IF InMatrix(m, id_a, id_b) THEN m[id_a][id_b]
    ELSE IF InMatrix(m, id_b, id_a) THEN RSub(Hundred, m[id_b][id_a])
    ELSE Fifty

\* a variant with the upper limit excluded
HalfOpenIsFair(wr) == RLe(One, wr) /\ RLt(wr, Int2R(99))

\* the test of _build_fairness_map
IsFair(wr) == RLe(One, wr) /\ RLe(wr, Int2R(99))

SeqIds(db) == {db[i].id : i \in DOMAIN db}

\* a variant without the `if id_a == id_b: continue`
FairSetWithSelf(db, m, id_a) ==
    {id_b \in SeqIds(db) : IsFair(_get_win_rate(m, id_a, id_b))}

FairSetOf(db, m, id_a) ==
    {id_b \in SeqIds(db) : id_b # id_a /\ IsFair(_get_win_rate(m, id_a, id_b))}

\* a defaultdict(set): only the ids something was added for are keys
_build_fairness_map(db, m) ==
    [id_a \in {x \in SeqIds(db) : FairSetOf(db, m, x) # {}} |-> FairSetOf(db, m, id_a)]

\* fairness_map[id] read without inserting: the set, empty when id is no key
fairSet(fm, id) == IF id \in DOMAIN fm THEN fm[id] ELSE {}

----------------------------------------------------------------------------
(* Construction *)

NoCall == [op |-> "none"]

\* no thread is inside set_mode, and none has been while another was
NoWriters == [active |-> [t \in {} |-> Zero], raced |-> FALSE]
\* no thread is inside a scoring loop
NoScorer == [pc |-> "idle"]
EmptyCounts == [x \in {} |-> 0]

\* MatchupEngine.__init__, and no call under way
Construct(db, m) ==
    /\ fighters_db = db
    /\ win_rate_matrix = m
    /\ fairness_map = _build_fairness_map(db, m)
    /\ WEIGHT_FIT = Rat(6, 10)
    /\ WEIGHT_FAIRNESS = Rat(4, 10)
    /\ P1_POOL_SIZE = 4
    /\ OPP_POOL_SIZE = 3
    /\ p1_elite = <<>>
    /\ opp_elite = <<>>
    /\ writers = NoWriters
    /\ scorer = NoScorer
    /\ pc = "idle"
    /\ call = NoCall
    /\ candidates = <<>>
    /\ all_candidates = <<>>
    /\ results = EmptyBag
    /\ batch_p1_counts = EmptyCounts
    /\ batch_opp_counts = EmptyCounts
    /\ remaining = 0

\* the caller takes the result of the call that returned
Return ==
    /\ pc = "returned"
    /\ call.op # "generate_batch"
    /\ pc' = "idle"
    /\ call' = NoCall
    /\ candidates' = <<>>
    /\ UNCHANGED <<engine, threads, elite, weights, batch>>

----------------------------------------------------------------------------
(* The oracle queried on every table *)

InitOracle == \E m \in Tables(MaxEntries) : Construct(Catalog, m)

GetWinRate ==
    /\ pc = "idle"
    /\ \E a \in QueryIds, b \in QueryIds :
          call' = [op |-> "_get_win_rate", id_a |-> a, id_b |-> b,
                   result |-> _get_win_rate(win_rate_matrix, a, b)]
    /\ pc' = "returned"
    /\ UNCHANGED <<engine, threads, elite, weights, locals>>

NextOracle == GetWinRate \/ Return

SpecOracle == InitOracle /\ [][NextOracle]_vars

\* C1: winRate(a,b) is the recorded entry (a,b) when it exists, otherwise 100
\* minus the recorded entry (b,a) when that exists, otherwise 50.
C1_LookupOrder ==
    call.op = "_get_win_rate" =>
        LET a == call.id_a
            b == call.id_b
            m == win_rate_matrix
        IN  /\ InMatrix(m, a, b) => call.result = m[a][b]
            /\ (~InMatrix(m, a, b) /\ InMatrix(m, b, a)) =>
                    RAdd(call.result, m[b][a]) = Hundred
            /\ (~InMatrix(m, a, b) /\ ~InMatrix(m, b, a)) => call.result = Fifty

\* a pair recorded only as (bravo, alpha) = 40 was queried as (alpha, bravo) and gave 60
C1_Witness ==
    /\ call.op = "_get_win_rate"
    /\ call.id_a = "alpha" /\ call.id_b = "bravo"
    /\ ~InMatrix(win_rate_matrix, "alpha", "bravo")
    /\ InMatrix(win_rate_matrix, "bravo", "alpha")
    /\ win_rate_matrix["bravo"]["alpha"] = Int2R(40)
    /\ call.result = Int2R(60)

\* C2: for every ordered pair of distinct catalog fighters (a,b), b is in a's
\* fair set exactly when winRate(a,b) lies strictly inside (0,100).
C2_FairSetIsOpenInterval ==
    \A a \in Ids, b \in Ids :
        a # b =>
            LET wr == _get_win_rate(win_rate_matrix, a, b)
            IN  (b \in fairSet(fairness_map, a)) <=> (RLt(Zero, wr) /\ RLt(wr, Hundred))

\* no pair is recorded in both directions with values that do not add up to 100
Complementary(m) ==
    \A a \in Ids, b \in Ids :
        (InMatrix(m, a, b) /\ InMatrix(m, b, a)) => RAdd(m[a][b], m[b][a]) = Hundred

Symmetric(fm) ==
    \A a \in Ids, b \in Ids : (b \in fairSet(fm, a)) <=> (a \in fairSet(fm, b))

\* C3 as stated: for every table, also one recording both (a,b) and (b,a),
\* b is in fairSet(a) if and only if a is in fairSet(b).
C3_SymmetricForEveryTable == Symmetric(fairness_map)

\* C3 as amended: membership is symmetric for every table in which the two
\* entries of a pair recorded in both directions add up to 100.
C3_SymmetricWhenComplementary ==
    Complementary(win_rate_matrix) => Symmetric(fairness_map)

\* (alpha, bravo) = 100 is recorded in one direction only, and each of the two is
\* outside the other's fair set
C3_Witness ==
    /\ InMatrix(win_rate_matrix, "alpha", "bravo")
    /\ ~InMatrix(win_rate_matrix, "bravo", "alpha")
    /\ win_rate_matrix["alpha"]["bravo"] = Hundred
    /\ "bravo" \notin fairSet(fairness_map, "alpha")
    /\ "alpha" \notin fairSet(fairness_map, "bravo")
    /\ "charlie" \in fairSet(fairness_map, "alpha")

----------------------------------------------------------------------------
(* WeightProfile: set_mode *)

\* str.lower() on the mode strings the model passes
lower(s) ==
    CASE s = "Discovery" -> "discovery"
      [] s = "FAIRNESS" -> "fairness"
      [] s = "Custom" -> "custom"
      [] s = "Turbo" -> "turbo"
      [] OTHER -> s

\* the mode argument: None or a string
ModeInputs ==
    {None} \cup {Str(s) : s \in {"", "discovery", "Discovery", "fairness", "FAIRNESS",
                                 "custom", "Custom", "turbo", "Turbo"}}

\* mode = (mode or "").lower()
NormalMode(mode) == IF mode.t = "none" \/ mode.s = "" THEN "" ELSE lower(mode.s)

\* the custom_fairness_weight argument: None, a string, a number or a list
CStr(s) == [t |-> "str", s |-> s, v |-> Zero]
CNum(v) == [t |-> "num", s |-> "", v |-> v]
CNone == [t |-> "none", s |-> "", v |-> Zero]
CList == [t |-> "list", s |-> "", v |-> Zero]

NumericStrings == {"1.5", "0.3", "-0.5", "1", " 0.7 "}
SpecialStrings == {"inf", "-inf", "nan"}
CustomInputs ==
    {CNone, CList, CStr(""), CStr("bad"), CStr("not-a-number")}
        \cup {CStr(s) : s \in NumericStrings \cup SpecialStrings}
        \cup {CNum(Zero), CNum(Rat(7, 10)), CNum(Int2R(2))}

\* a float: finite, infinite or NaN
Fin(v) == [k |-> "fin", v |-> v]
PosInf == [k |-> "inf", v |-> Zero]
NegInf == [k |-> "-inf", v |-> Zero]
NaN == [k |-> "nan", v |-> Zero]

\* the value float() gives a string it accepts
ParseFloat(s) ==
    CASE s = "1.5" -> Fin(Rat(3, 2))
      [] s = "0.3" -> Fin(Rat(3, 10))
      [] s = "-0.5" -> Fin(Rat(-1, 2))
      [] s = "1" -> Fin(One)
      [] s = " 0.7 " -> Fin(Rat(7, 10))
      [] s = "inf" -> PosInf
      [] s = "-inf" -> NegInf
      [] s = "nan" -> NaN

\* float(c) raises ValueError (a string that is no number) or TypeError (a list)
FloatRaises(c) ==
    \/ c.t = "list"
    \/ c.t = "none"
    \/ c.t = "str" /\ c.s \notin NumericStrings \cup SpecialStrings

float(c) == IF c.t = "num" THEN Fin(c.v) ELSE ParseFloat(c.s)

\* x < y on floats: every comparison with NaN is false
FLt(x, y) ==
    CASE x.k = "nan" \/ y.k = "nan" -> FALSE
      [] x.k = "inf" \/ y.k = "-inf" -> FALSE
      [] x.k = "-inf" \/ y.k = "inf" -> TRUE
      [] OTHER -> RLt(x.v, y.v)

\* Python's min(a, b) and max(a, b): the first argument unless the second is
\* strictly smaller (greater)
PyMin(a, b) == IF FLt(b, a) THEN b ELSE a
PyMax(a, b) == IF FLt(a, b) THEN b ELSE a

\* a variant that clamps from above only
ClampAbove(w) == PyMin(Fin(One), w)

\* w = max(0.0, min(1.0, w))
Clamp(w) == PyMax(Fin(Zero), PyMin(Fin(One), w))

\* a variant without the final else branch: an unrecognised mode keeps the weights
KeepOnUnknownModeWeights(mode, custom_fairness_weight) ==
    LET m == NormalMode(mode)
    IN  IF m = "discovery" THEN <<Rat(7, 10), Rat(3, 10)>>
        ELSE IF m = "fairness" THEN <<Rat(3, 10), Rat(7, 10)>>
        ELSE IF m = "custom" /\ ~(custom_fairness_weight.t = "none"
                                  \/ (custom_fairness_weight.t = "str"
                                      /\ custom_fairness_weight.s = ""))
        THEN LET w0 == IF FloatRaises(custom_fairness_weight)
                       THEN Fin(Rat(4, 10))
                       ELSE float(custom_fairness_weight)
                 w == PyMax(Fin(Zero), PyMin(Fin(One), w0))
             IN  <<RSub(One, w.v), w.v>>
        ELSE <<WEIGHT_FIT, WEIGHT_FAIRNESS>>

\* the weight pair <<WEIGHT_FIT, WEIGHT_FAIRNESS>> set_mode leaves
ModeWeights(mode, custom_fairness_weight) ==
    LET m == NormalMode(mode)
    IN  IF m = "discovery" THEN <<Rat(7, 10), Rat(3, 10)>>
        ELSE IF m = "fairness" THEN <<Rat(3, 10), Rat(7, 10)>>
        ELSE IF m = "custom" /\ ~(custom_fairness_weight.t = "none"
                                  \/ (custom_fairness_weight.t = "str"
                                      /\ custom_fairness_weight.s = ""))
        THEN LET w0 == IF FloatRaises(custom_fairness_weight)
                       THEN Fin(Rat(4, 10))
                       ELSE float(custom_fairness_weight)
                 w == Clamp(w0)
             IN  <<RSub(One, w.v), w.v>>
        ELSE <<Rat(6, 10), Rat(4, 10)>>

set_mode ==
    /\ pc = "idle"
    /\ \E mode \in ModeInputs, c \in CustomInputs :
          /\ WEIGHT_FIT' = ModeWeights(mode, c)[1]
          /\ WEIGHT_FAIRNESS' = ModeWeights(mode, c)[2]
          /\ call' = [op |-> "set_mode", mode |-> mode, custom_fairness_weight |-> c]
    /\ pc' = "returned"
    /\ UNCHANGED <<engine, threads, elite, locals>>

----------------------------------------------------------------------------
(* FitScorer *)

LevelNames == <<"Melee", "Reach", "Hybrid", "Ranged Assist", "Ranged">>
DigitNames == <<"1", "2", "3", "4", "5">>
Levels == 1..Len(LevelNames)

\* key in self.RANGE_INPUT_MAP
RangeMapHas(key) ==
    \/ key.t = "int" /\ key.i \in Levels
    \/ key.t = "str" /\ \E l \in Levels : key.s \in {LevelNames[l], DigitNames[l]}
    \/ key.t = "str" /\ key.s \in {"Any", ""}

\* self.RANGE_INPUT_MAP[key]: the level, or 0 for the None of "Any" and ""
RANGE_INPUT_MAP(key) ==
    IF key.t = "int" THEN key.i
    ELSE IF key.s \in {"Any", ""} THEN 0
    ELSE CHOOSE l \in Levels : key.s \in {LevelNames[l], DigitNames[l]}

\* self.RANGE_INPUT_MAP.get(key, 1)
RangeGet(key) == IF RangeMapHas(key) THEN RANGE_INPUT_MAP(key) ELSE 1

\* a variant that takes "any" for the sentinel as well
CaseFoldRangeActive(range_pref) ==
    ~ \/ range_pref.t = "none"
      \/ range_pref.t = "str" /\ range_pref.s = ""
      \/ range_pref.t = "int" /\ range_pref.i = 0
      \/ range_pref.t = "str" /\ range_pref.s \in {"Any", "any"}

\* not (not range_pref or range_pref == "Any" or range_pref == "")
RangeActive(range_pref) ==
    ~ \/ range_pref.t = "none"
      \/ range_pref.t = "str" /\ range_pref.s = ""
      \/ range_pref.t = "int" /\ range_pref.i = 0
      \/ range_pref.t = "str" /\ range_pref.s = "Any"

MAJOR_WEIGHT == Rat(17, 10)
MINOR_WEIGHT == One

Weighted(majors, minors) ==
    RAdd(RMul(Int2R(Cardinality(majors)), MAJOR_WEIGHT),
         RMul(Int2R(Cardinality(minors)), MINOR_WEIGHT))

\* a variant whose neutral default is 0
ZeroNeutralTagScore(fighter, requested_tags) ==
    IF requested_tags = {} THEN Zero
    ELSE IF fighter.major = {} /\ fighter.minor = {} THEN Zero
    ELSE LET weighted_matches == Weighted(fighter.major \cap requested_tags,
                                          fighter.minor \cap requested_tags)
         IN  RAdd(RMul(Rat(4, 10),
                       RDiv(weighted_matches, Weighted(fighter.major, fighter.minor))),
                  RMul(Rat(6, 10),
                       RDiv(weighted_matches,
                            RMul(Int2R(Cardinality(requested_tags)), MAJOR_WEIGHT))))

\* a variant that values the requested tags at the minor weight for coverage
MinorCoverageTagScore(fighter, requested_tags) ==
    IF requested_tags = {} THEN Rat(1, 2)
    ELSE IF fighter.major = {} /\ fighter.minor = {} THEN Zero
    ELSE LET weighted_matches == Weighted(fighter.major \cap requested_tags,
                                          fighter.minor \cap requested_tags)
         IN  RAdd(RMul(Rat(4, 10),
                       RDiv(weighted_matches, Weighted(fighter.major, fighter.minor))),
                  RMul(Rat(6, 10),
                       RDiv(weighted_matches,
                            RMul(Int2R(Cardinality(requested_tags)), MINOR_WEIGHT))))

\* part 1 of _calculate_individual_fit: the tag score
TagScore(fighter, requested_tags) ==
    IF requested_tags = {} THEN Rat(1, 2)
    ELSE IF fighter.major = {} /\ fighter.minor = {} THEN Zero
    ELSE LET weighted_matches == Weighted(fighter.major \cap requested_tags,
                                          fighter.minor \cap requested_tags)
             total_weighted == Weighted(fighter.major, fighter.minor)
             total_requested_weighted ==
                 RMul(Int2R(Cardinality(requested_tags)), MAJOR_WEIGHT)
         IN  IF RLt(Zero, total_weighted) /\ RLt(Zero, total_requested_weighted)
             THEN LET match_ratio == RDiv(weighted_matches, total_weighted)
                      coverage_score == RDiv(weighted_matches, total_requested_weighted)
                  IN  RAdd(RMul(Rat(4, 10), match_ratio),
                           RMul(Rat(6, 10), coverage_score))
             ELSE Zero

\* abs(f_val - p_val) raises TypeError when the fighter's range maps to None
FitRaises(fighter, range_pref) ==
    RangeActive(range_pref) /\ RangeGet(fighter.range) = 0

\* a variant that blends tag score and range score evenly
EvenBlend_calculate_individual_fit(fighter, requested_tags, range_pref) ==
    LET tag_score == TagScore(fighter, requested_tags)
    IN  IF ~RangeActive(range_pref) THEN tag_score
        ELSE LET range_score ==
                    RSub(One, Rat(Abs(RangeGet(fighter.range) - RangeGet(range_pref)), 4))
             IN  RAdd(RMul(Rat(5, 10), tag_score), RMul(Rat(5, 10), range_score))

_calculate_individual_fit(fighter, requested_tags, range_pref) ==
    LET tag_score == TagScore(fighter, requested_tags)
    IN  IF ~RangeActive(range_pref) THEN tag_score
        ELSE LET p_val == RangeGet(range_pref)
                 f_val == RangeGet(fighter.range)
                 distance == Abs(f_val - p_val)
                 range_score == RSub(One, Rat(distance, 4))
             IN  RAdd(RMul(Rat(4, 10), tag_score), RMul(Rat(6, 10), range_score))

----------------------------------------------------------------------------
(* The fit scorer applied to every fighter, tag request and range preference *)

\* values of a fighter's 'range' field: level names, digit strings, integers,
\* a missing field, the any-sentinel, the empty string, an unknown word
RangeFields ==
    {Str(LevelNames[l]) : l \in Levels}
        \cup {Str("3"), Num(2), Num(5), None, Str("Any"), Str(""), Str("Sniper")}

\* values of a range preference
RangePrefs ==
    {None, Str(""), Str("Any"), Str("any"), Num(0), Str("Melee"), Str("Hybrid"),
     Str("Ranged"), Str("4"), Num(2), Str("Sniper")}

FitFighters ==
    {Fighter("delta", major, minor, range) :
        major \in SUBSET Tags, minor \in SUBSET Tags, range \in RangeFields}

CalculateIndividualFit ==
    /\ pc = "idle"
    /\ \E fighter \in FitFighters, requested_tags \in SUBSET Tags, range_pref \in RangePrefs :
          call' = [op |-> "_calculate_individual_fit", fighter |-> fighter,
                   requested_tags |-> requested_tags, range_pref |-> range_pref,
                   raised |-> FitRaises(fighter, range_pref),
                   result |-> IF FitRaises(fighter, range_pref) THEN Zero
                              ELSE _calculate_individual_fit(fighter, requested_tags,
                                                             range_pref)]
    /\ pc' = "returned"
    /\ UNCHANGED <<engine, threads, elite, weights, locals>>

FixtureTable ==
    MatrixOf(<<"alpha", "bravo">> :> Int2R(60) @@ <<"bravo", "charlie">> :> Int2R(55))

InitFit == Construct(Catalog, FixtureTable)

NextFit == CalculateIndividualFit \/ Return

SpecFit == InitFit /\ [][NextFit]_vars

FitReturned == call.op = "_calculate_individual_fit" /\ ~call.raised

\* C6: for every fighter, whatever its tags and range, fit(fighter, empty
\* requested tag set, no range preference) is the neutral value 0.5.
C6_NeutralWithoutRequest ==
    (FitReturned /\ call.requested_tags = {} /\ call.range_pref = None)
        => call.result = Rat(1, 2)

\* a fighter with a major tag, a minor tag and a range got 0.5 without a request
C6_Witness ==
    /\ FitReturned
    /\ call.requested_tags = {} /\ call.range_pref = None
    /\ call.fighter.major # {} /\ call.fighter.minor # {}
    /\ call.fighter.range = Str("Ranged")
    /\ call.result = Rat(1, 2)

\* the fighter's tags, major and minor together, are the non-empty requested set,
\* and its range is the range preference
ExactMatch ==
    /\ FitReturned
    /\ call.requested_tags # {}
    /\ call.fighter.major \cup call.fighter.minor = call.requested_tags
    /\ call.fighter.range = call.range_pref

C8_FitInUnitInterval ==
    (FitReturned /\ \E l \in Levels : call.fighter.range = Str(LevelNames[l]))
        => (RLe(Zero, call.result) /\ RLe(call.result, One))

----------------------------------------------------------------------------
(* OpponentRecommender *)

\* 1.0 - abs(win_rate - 50.0) / 50.0
Fairness(win_rate) == RSub(One, RDiv(RAbs(RSub(win_rate, Fifty)), Fifty))

\* x put into a list sorted by descending score, behind the entries that score
\* at least as much: what a stable sort does with the next entry
InsertByScore(sorted, x) ==
    LET k == Cardinality({i \in DOMAIN sorted : RLe(x.score, sorted[i].score)})
    IN  SubSeq(sorted, 1, k) \o <<x>> \o SubSeq(sorted, k + 1, Len(sorted))

RECURSIVE SortAscending(_)
\* a variant without reverse=True
SortAscending(cands) ==
    IF cands = <<>> THEN <<>>
    ELSE LET sorted == SortAscending(SubSeq(cands, 1, Len(cands) - 1))
             x == cands[Len(cands)]
             k == Cardinality({i \in DOMAIN sorted : RLe(sorted[i].score, x.score)})
         IN  SubSeq(sorted, 1, k) \o <<x>> \o SubSeq(sorted, k + 1, Len(sorted))

RECURSIVE StableInsertionSort(_)
StableInsertionSort(cands) ==
    IF cands = <<>> THEN <<>>
    ELSE InsertByScore(StableInsertionSort(SubSeq(cands, 1, Len(cands) - 1)),
                       cands[Len(cands)])

\* a variant that sorts ascending and reverses the list
ReversedAscendingSort(cands) ==
    LET up == SortAscending(cands)
    IN  [i \in DOMAIN up |-> up[Len(up) + 1 - i]]

\* list.sort(key=lambda x: x['score'], reverse=True): stable, descending
SortByScoreDesc(cands) == StableInsertionSort(cands)

MinOf(a, b) == IF a < b THEN a ELSE b

\* the entries of seq
SeqRange(seq) == {seq[i] : i \in DOMAIN seq}

\* seq[:n] for n >= 0
Take(seq, n) == SubSeq(seq, 1, IF n < Len(seq) THEN n ELSE Len(seq))

\* the scored candidate recommend_opponents builds for opp
RecommendCandidate(fighter, opp, opponent_tags, opponent_range, wfit, wfair, m) ==
    LET win_rate == _get_win_rate(m, fighter.id, opp.id)
        fairness == Fairness(win_rate)
        tag_fit == _calculate_individual_fit(opp, opponent_tags, opponent_range)
    IN  [fighter |-> opp,
         score |-> RAdd(RMul(wfair, fairness), RMul(wfit, tag_fit)),
         win_rate |-> win_rate]

RECURSIVE ScoreOpponents(_, _, _, _, _, _, _)
\* the loop of recommend_opponents over available_fighters: the fixed fighter
\* is skipped, every other entry is scored and appended
ScoreOpponents(fighter, available_fighters, opponent_tags, opponent_range, wfit, wfair, m) ==
    IF available_fighters = <<>> THEN <<>>
    ELSE LET n == Len(available_fighters)
             opp == available_fighters[n]
             before == ScoreOpponents(fighter, SubSeq(available_fighters, 1, n - 1),
                                      opponent_tags, opponent_range, wfit, wfair, m)
         IN  IF opp.id = fighter.id THEN before
             ELSE Append(before, RecommendCandidate(fighter, opp, opponent_tags,
                                                    opponent_range, wfit, wfair, m))

\* the list `candidates` of recommend_opponents after the sort
RecommendCandidates(fighter, available_fighters, opponent_tags, opponent_range, wfit, wfair, m) ==
    SortByScoreDesc(ScoreOpponents(fighter, available_fighters, opponent_tags,
                                   opponent_range, wfit, wfair, m))

\* sequences over S of length at most n
SeqsUpTo(S, n) == UNION {[1..k -> S] : k \in 0..n}

CatalogFighters == {Catalog[i] : i \in DOMAIN Catalog}

\* the fixed fighter: a catalog fighter, or one with a catalog id and other
\* tags and range
FixedFighters ==
    {alpha, bravo, Fighter("alpha", {"defensive"}, {"aggressive"}, Str("Reach"))}

RecommendRanges == {None, Str("Reach")}

\* the requested tags of a recommendation: none, the tests' one, and two
RecommendTags == {{}, {"defensive"}, {"aggressive", "defensive"}}

recommend_opponents ==
    /\ pc = "idle"
    /\ \E fighter \in FixedFighters, available_fighters \in SeqsUpTo(CatalogFighters, MaxPool),
          opponent_tags \in RecommendTags, opponent_range \in RecommendRanges :
          /\ candidates' = RecommendCandidates(fighter, available_fighters,
                               opponent_tags, opponent_range,
                               WEIGHT_FIT, WEIGHT_FAIRNESS, win_rate_matrix)
          /\ \E quantity \in 0..MaxQuantity :
                call' = [op |-> "recommend_opponents", fighter |-> fighter,
                         available_fighters |-> available_fighters,
                         opponent_tags |-> opponent_tags,
                         opponent_range |-> opponent_range, quantity |-> quantity,
                         result |-> [i \in DOMAIN Take(candidates', quantity) |->
                                        candidates'[i].fighter]]
    /\ pc' = "returned"
    /\ UNCHANGED <<engine, threads, elite, weights, batch>>

----------------------------------------------------------------------------
(* PairScorer and BatchGenerator *)

\* a variant that scores with the weights of the construction
ConstructionWeights_score_pair(p1_fighter, opp_fighter, p1_tags, opp_tags, p1_range, opp_range, wfit, wfair, m) ==
    LET score_p1 == _calculate_individual_fit(p1_fighter, p1_tags, p1_range)
        score_opp == _calculate_individual_fit(opp_fighter, opp_tags, opp_range)
        dual_fit == RDiv(RAdd(score_p1, score_opp), Int2R(2))
        win_rate == _get_win_rate(m, p1_fighter.id, opp_fighter.id)
        fairness == Fairness(win_rate)
    IN  <<RAdd(RMul(Rat(6, 10), dual_fit), RMul(Rat(4, 10), fairness)), win_rate>>

\* <<total_score, win_rate>> of the pairing
_score_pair(p1_fighter, opp_fighter, p1_tags, opp_tags, p1_range, opp_range, wfit, wfair, m) ==
    LET score_p1 == _calculate_individual_fit(p1_fighter, p1_tags, p1_range)
        score_opp == _calculate_individual_fit(opp_fighter, opp_tags, opp_range)
        dual_fit == RDiv(RAdd(score_p1, score_opp), Int2R(2))
        win_rate == _get_win_rate(m, p1_fighter.id, opp_fighter.id)
        fairness == Fairness(win_rate)
    IN  <<RAdd(RMul(wfit, dual_fit), RMul(wfair, fairness)), win_rate>>

RECURSIVE ScorePairs(_, _, _, _, _, _, _, _, _)
\* step 1 of generate_batch: the first k passes of the double loop over
\* available_fighters (f_a outer, f_b inner); pairs of one id are skipped
ScorePairs(available_fighters, k, p1_tags, opp_tags, p1_range, opp_range, wfit, wfair, m) ==
    IF k = 0 THEN <<>>
    ELSE LET n == Len(available_fighters)
             f_a == available_fighters[((k - 1) \div n) + 1]
             f_b == available_fighters[((k - 1) % n) + 1]
             before == ScorePairs(available_fighters, k - 1, p1_tags, opp_tags,
                                  p1_range, opp_range, wfit, wfair, m)
             scored == _score_pair(f_a, f_b, p1_tags, opp_tags, p1_range, opp_range,
                                   wfit, wfair, m)
         IN  IF f_a.id = f_b.id THEN before
             ELSE Append(before, [p1 |-> f_a, opp |-> f_b, score |-> scored[1],
                                  win_rate |-> scored[2]])

MAX_REPEATS == 3
TopN == 10

\* defaultdict(int): the count of id, 0 when it was never counted
CountOf(counts, id) == IF id \in DOMAIN counts THEN counts[id] ELSE 0
Incremented(counts, id) ==
    [x \in DOMAIN counts \cup {id} |-> IF x = id THEN CountOf(counts, id) + 1
                                       ELSE counts[x]]

\* a variant of the cap test that is off by one
AtMostCap(count) == count <= MAX_REPEATS

\* the cap test of the filter
BelowCap(count) == count < MAX_REPEATS

\* step A of the loop: the pairs neither fighter of which is maxed out
ValidCandidates ==
    LET Valid(c) == /\ BelowCap(CountOf(batch_p1_counts, c.p1.id))
                    /\ BelowCap(CountOf(batch_opp_counts, c.opp.id))
    IN  SelectSeq(all_candidates, Valid)

\* step B: valid_candidates[:10]
Top10 == Take(ValidCandidates, TopN)

\* the request of a batch: the tests' one
BatchRequests ==
    {[p1_tags |-> {"aggressive"}, opp_tags |-> {"defensive"},
      p1_range |-> Str("Any"), opp_range |-> Str("Any")]}

\* generate_batch up to the loop: the master list is scored and sorted
generate_batch ==
    /\ pc = "idle"
    /\ \E available_fighters \in SeqsUpTo(CatalogFighters, MaxPool),
          req \in BatchRequests, quantity \in 0..MaxBatch :
          /\ all_candidates' =
                SortByScoreDesc(ScorePairs(available_fighters,
                    Len(available_fighters) * Len(available_fighters),
                    req.p1_tags, req.opp_tags, req.p1_range, req.opp_range,
                    WEIGHT_FIT, WEIGHT_FAIRNESS, win_rate_matrix))
          /\ remaining' = quantity
          /\ call' = [op |-> "generate_batch", available_fighters |-> available_fighters,
                      request |-> req, quantity |-> quantity, raised |-> FALSE]
    /\ results' = EmptyBag
    /\ batch_p1_counts' = EmptyCounts
    /\ batch_opp_counts' = EmptyCounts
    /\ pc' = "batch_loop"
    /\ UNCHANGED <<engine, threads, elite, weights, candidates>>

\* one pass of the loop: random.choices draws one of the top 10 with its score
\* as weight, so an entry of score 0 is never drawn
BatchSelect ==
    /\ pc = "batch_loop"
    /\ remaining > 0
    /\ \E selection \in SeqRange(Top10) :
          /\ RLt(Zero, selection.score)
          /\ batch_p1_counts' = Incremented(batch_p1_counts, selection.p1.id)
          /\ batch_opp_counts' = Incremented(batch_opp_counts, selection.opp.id)
          /\ results' = results (+) SetToBag({selection})
    /\ remaining' = remaining - 1
    /\ UNCHANGED <<engine, threads, elite, weights, pc, call, candidates, all_candidates>>

\* random.choices raises ValueError when the weights of the top 10 add up to 0
BatchRaise ==
    /\ pc = "batch_loop"
    /\ remaining > 0
    /\ \E top_10 \in {SeqRange(Top10)} :
          /\ top_10 # {}
          /\ \A c \in top_10 : ~RLt(Zero, c.score)
    /\ call' = [call EXCEPT !.raised = TRUE]
    /\ pc' = "returned"
    /\ UNCHANGED <<engine, threads, elite, weights, locals>>

\* `if not valid_candidates: break`
BatchBreak ==
    /\ pc = "batch_loop"
    /\ remaining > 0
    /\ ValidCandidates = <<>>
    /\ pc' = "returned"
    /\ UNCHANGED <<engine, threads, elite, weights, call, locals>>

\* the loop ran `quantity` times: return results
BatchReturn ==
    /\ pc = "batch_loop"
    /\ remaining = 0
    /\ pc' = "returned"
    /\ UNCHANGED <<engine, threads, elite, weights, call, locals>>

\* the caller takes the batch
BatchTaken ==
    /\ pc = "returned"
    /\ call.op = "generate_batch"
    /\ pc' = "idle"
    /\ call' = NoCall
    /\ all_candidates' = <<>>
    /\ results' = EmptyBag
    /\ batch_p1_counts' = EmptyCounts
    /\ batch_opp_counts' = EmptyCounts
    /\ remaining' = 0
    /\ UNCHANGED <<engine, threads, elite, weights, candidates>>

----------------------------------------------------------------------------
(* generate_fair_pools *)

\* the rest of the tests' expanded fixture, and a fighter of no catalog
delta == Fighter("delta", {"defensive"}, {}, Str("Melee"))
echo == Fighter("echo", {"aggressive"}, {}, Str("Reach"))
zulu == Fighter("zulu", {"aggressive"}, {}, Str("Melee"))
Expanded == <<alpha, bravo, charlie, delta, echo>>

ExpandedTable ==
    MatrixOf(<<"alpha", "bravo">> :> Int2R(65) @@ <<"alpha", "delta">> :> Int2R(60) @@
             <<"bravo", "alpha">> :> Int2R(35) @@ <<"bravo", "charlie">> :> Int2R(55) @@
             <<"charlie", "delta">> :> Int2R(52))

\* ---- _pick_weighted_elite, one pass of its loop at a time ----

ELITE_K == 12

\* max_picks = min(k, len(pool))
MaxPicks(score_list, k) == MinOf(k, Len(score_list))

\* candidates: the entries whose id is not used yet
EliteCandidates(score_list, picked) ==
    SelectSeq(score_list, LAMBDA item : item.id \notin {picked[i].id : i \in DOMAIN picked})

\* max(item['score'], 0.0)
EliteWeight(item) == IF RLt(item.score, Zero) THEN Zero ELSE item.score

\* a variant that draws uniformly among the candidates
AnyCandidate(cands) == SeqRange(cands)

\* the entries one draw can give: any candidate when all weights are 0
\* (random.choice), else any candidate of positive weight (random.choices)
Drawable(cands) ==
    IF \A i \in DOMAIN cands : EliteWeight(cands[i]) = Zero
    THEN SeqRange(cands)
    ELSE {c \in SeqRange(cands) : RLt(Zero, EliteWeight(c))}

\* the loop is over: max_picks passes made, or no candidate left (break)
EliteDone(score_list, picked, k) ==
    \/ Len(picked) >= MaxPicks(score_list, k)
    \/ EliteCandidates(score_list, picked) = <<>>

\* ---- the scoring of generate_fair_pools ----

RECURSIVE ScoreList(_, _, _)
\* p1_scores / opp_scores: one entry {'id', 'score'} per available fighter
ScoreList(available_fighters, tags, range) ==
    IF available_fighters = <<>> THEN <<>>
    ELSE LET n == Len(available_fighters)
             f == available_fighters[n]
         IN  Append(ScoreList(SubSeq(available_fighters, 1, n - 1), tags, range),
                    [id |-> f.id, score |-> _calculate_individual_fit(f, tags, range)])

\* {x['id']: x['score'] for x in scores}: the last entry of an id gives its score
ScoreMap(scores) ==
    [id \in {scores[i].id : i \in DOMAIN scores} |->
        LET last == CHOOSE i \in DOMAIN scores :
                        /\ scores[i].id = id
                        /\ \A j \in DOMAIN scores : scores[j].id = id => j <= i
        IN  scores[last].score]

Ids_of(items) == [i \in DOMAIN items |-> items[i].id]

RECURSIVE combinations(_, _)
\* itertools.combinations(ids, r): the r-tuples of ids in position order
combinations(ids, r) ==
    IF r = 0 THEN << <<>> >>
    ELSE IF Len(ids) < r THEN <<>>
    ELSE LET rest == Tail(ids)
             with == combinations(rest, r - 1)
         IN  [i \in DOMAIN with |-> <<Head(ids)>> \o with[i]] \o combinations(rest, r)

RECURSIVE RSum(_)
RSum(seq) == IF seq = <<>> THEN Zero ELSE RAdd(Head(seq), RSum(Tail(seq)))

_calculate_matchup_fairness(m, fighter_id, opponent_id) ==
    Fairness(_get_win_rate(m, fighter_id, opponent_id))

_calculate_pool_fitness(pool_a_ids, pool_b_ids, p1_score_map, opp_score_map, pool_a_size, pool_b_size) ==
    LET p1_fit == RSum([i \in DOMAIN pool_a_ids |-> p1_score_map[pool_a_ids[i]]])
        opp_fit == RSum([i \in DOMAIN pool_b_ids |-> opp_score_map[pool_b_ids[i]]])
    IN  RDiv(RAdd(p1_fit, opp_fit), Int2R(pool_a_size + pool_b_size))

\* the pairs (p1_id, opp_id) in the order of the nested comprehension
CrossPairs(pool_a_ids, pool_b_ids) ==
    [k \in 1..(Len(pool_a_ids) * Len(pool_b_ids)) |->
        <<pool_a_ids[((k - 1) \div Len(pool_b_ids)) + 1],
          pool_b_ids[((k - 1) % Len(pool_b_ids)) + 1]>>]

_calculate_pool_fairness(m, pool_a_ids, pool_b_ids) ==
    LET pairs == CrossPairs(pool_a_ids, pool_b_ids)
        fairness_scores ==
            [k \in DOMAIN pairs |-> _calculate_matchup_fairness(m, pairs[k][1], pairs[k][2])]
    IN  RDiv(RSum(fairness_scores), Int2R(Len(fairness_scores)))

\* total_score of one combination pair
TotalScore(pool_a_ids, pool_b_ids, p1_score_map, opp_score_map, sizeA, sizeB, wfit, wfair, m) ==
    LET avg_fit == _calculate_pool_fitness(pool_a_ids, pool_b_ids, p1_score_map, opp_score_map, sizeA, sizeB)
        avg_fairness == _calculate_pool_fairness(m, pool_a_ids, pool_b_ids)
    IN  RAdd(RMul(wfit, avg_fit), RMul(wfair, avg_fairness))

_calculate_fighter_total_score(fighter, score_map, pool_ids, wfit, wfair, m) ==
    LET fit_score == score_map[fighter.id]
        fairness_scores ==
            [k \in DOMAIN pool_ids |-> _calculate_matchup_fairness(m, fighter.id, pool_ids[k])]
        avg_fairness == RDiv(RSum(fairness_scores), Int2R(Len(fairness_scores)))
    IN  RAdd(RMul(wfit, fit_score), RMul(wfair, avg_fairness))

\* ---- the search over the combination pairs ----

\* a variant that takes the fair set of the first member alone
FirstMemberUniverse(fm, pool_a_ids) == fairSet(fm, pool_a_ids[1])

RECURSIVE ValidOppUniverse(_, _)
\* the intersection of the fair sets of the members of pool_a_ids
ValidOppUniverse(fm, pool_a_ids) ==
    IF Len(pool_a_ids) = 1 THEN fairSet(fm, pool_a_ids[1])
    ELSE ValidOppUniverse(fm, SubSeq(pool_a_ids, 1, Len(pool_a_ids) - 1))
            \cap fairSet(fm, pool_a_ids[Len(pool_a_ids)])

\* a variant of the subset check that accepts every side-B combination
AcceptAll(pool_b_ids, valid_opp_universe) == TRUE

\* set(pool_b_ids).issubset(valid_opp_universe)
IsSubset(pool_b_ids, valid_opp_universe) == SeqRange(pool_b_ids) \subseteq valid_opp_universe

\* a variant that replaces the best pair on an equal score as well
AtLeast(total_score, max_total_score) == RLe(max_total_score, total_score)

\* total_score > max_total_score
Improves(total_score, max_total_score) == RLt(max_total_score, total_score)

NoBest == [found |-> FALSE, max_total_score |-> Int2R(-1)]

RECURSIVE InnerLoop(_, _, _, _, _, _)
\* `for pool_b_ids in opp_combos` from position j on, for one pool_a_ids
InnerLoop(best, pool_a_ids, opp_combos, j, valid_opp_universe, totals) ==
    IF j > Len(opp_combos) THEN best
    ELSE LET pool_b_ids == opp_combos[j]
             total_score == totals[<<SeqRange(pool_a_ids), SeqRange(pool_b_ids)>>]
             next == IF IsSubset(pool_b_ids, valid_opp_universe)
                        /\ Improves(total_score, best.max_total_score)
                     THEN [found |-> TRUE, max_total_score |-> total_score,
                           p1_ids |-> pool_a_ids, opp_ids |-> pool_b_ids]
                     ELSE best
         IN  InnerLoop(next, pool_a_ids, opp_combos, j + 1, valid_opp_universe, totals)

RECURSIVE OuterLoop(_, _, _, _, _, _, _)
\* `for pool_a_ids in p1_combos` from position i on
OuterLoop(best, p1_combos, opp_combos, i, fm, sizeB, totals) ==
    IF i > Len(p1_combos) THEN best
    ELSE LET pool_a_ids == p1_combos[i]
             valid_opp_universe == ValidOppUniverse(fm, pool_a_ids)
             next == IF Cardinality(valid_opp_universe) < sizeB THEN best
                     ELSE InnerLoop(best, pool_a_ids, opp_combos, 1, valid_opp_universe, totals)
         IN  OuterLoop(next, p1_combos, opp_combos, i + 1, fm, sizeB, totals)

\* the ids fairness_map is read for: every member of every side-A combination.
\* Reading a defaultdict at a missing key inserts the key with an empty set.
KeysRead(p1_combos) == UNION {SeqRange(p1_combos[i]) : i \in DOMAIN p1_combos}

AfterReads(fm, ids) == [id \in DOMAIN fm \cup ids |-> fairSet(fm, id)]

\* a variant that lists the members in the order of pool_ids
MembersInDrawOrder(available_fighters, pool_ids) ==
    [k \in DOMAIN pool_ids |->
        available_fighters[CHOOSE i \in DOMAIN available_fighters :
                              available_fighters[i].id = pool_ids[k]]]

\* [f for f in available_fighters if f['id'] in pool_ids]
Members(available_fighters, pool_ids) ==
    SelectSeq(available_fighters, LAMBDA f : f.id \in SeqRange(pool_ids))

\* a variant that leaves the pool in the order of the input
InputOrderPool(pool, score_map, other_ids, wfit, wfair, m) == pool

\* pool.sort(key=_calculate_fighter_total_score, reverse=True)
SortPool(pool, score_map, other_ids, wfit, wfair, m) ==
    LET keyed == [i \in DOMAIN pool |->
                    [fighter |-> pool[i],
                     score |-> _calculate_fighter_total_score(pool[i], score_map, other_ids,
                                                              wfit, wfair, m)]]
        sorted == SortByScoreDesc(keyed)
    IN  [i \in DOMAIN sorted |-> sorted[i].fighter]

\* the score of every combination pair of the pool's ids, computed once per
\* call: total_score depends on the two id sets, the score maps, the sizes, the
\* weights and the table, and none of them changes while the call runs
Totals(ids, p1_score_map, opp_score_map, sizeA, sizeB, wfit, wfair, m) ==
    LET As == combinations(ids, sizeA)
        Bs == combinations(ids, sizeB)
    IN  [pr \in {<<SeqRange(As[i]), SeqRange(Bs[j])>> : i \in DOMAIN As, j \in DOMAIN Bs} |->
            LET a == CHOOSE i \in DOMAIN As : SeqRange(As[i]) = pr[1]
                b == CHOOSE j \in DOMAIN Bs : SeqRange(Bs[j]) = pr[2]
            IN  TotalScore(As[a], Bs[b], p1_score_map, opp_score_map, sizeA, sizeB, wfit, wfair, m)]

\* ---- the call, step by step ----

MaxOf(a, b) == IF a > b THEN a ELSE b

RECURSIVE SubSeqOf(_, _)
\* the entries of seq at the positions in S, in their order in seq
SubSeqOf(seq, S) ==
    IF seq = <<>> THEN <<>>
    ELSE LET n == Len(seq)
             front == SubSeqOf(SubSeq(seq, 1, n - 1), S)
         IN  IF n \in S THEN Append(front, seq[n]) ELSE front

\* the fighters a pool is taken from: catalog fighters and one of no catalog
PoolRoster == <<alpha, bravo, charlie, delta, zulu>>

\* the pools: the selections of at most MaxFairPool roster fighters, in roster order
FairPoolInputs ==
    {SubSeqOf(PoolRoster, S) : S \in {T \in SUBSET DOMAIN PoolRoster : Cardinality(T) <= MaxFairPool}}

\* the request: the tags of the tests' one, without range preferences, so that
\* a fighter without a requested tag has fit 0 and with it sampling weight 0
PoolRequests ==
    {[p1_tags |-> {"aggressive"}, opp_tags |-> {"defensive"},
      p1_range |-> None, opp_range |-> None]}

\* the sizes the pools are set to: the tests' 2 and 2, and smaller ones
SmallSizes == 1..2

\* engine.P1_POOL_SIZE = a; engine.OPP_POOL_SIZE = b, as the tests do
SetPoolSizes ==
    /\ pc = "idle"
    /\ \E a \in SmallSizes, b \in SmallSizes :
          /\ P1_POOL_SIZE' = a
          /\ OPP_POOL_SIZE' = b
    /\ UNCHANGED <<fighters_db, win_rate_matrix, fairness_map, weights, pc, call,
                   locals, elite, threads>>

\* generate_fair_pools up to the elite selection: the size check and the scores
generate_fair_pools ==
    /\ pc = "idle"
    /\ \E available_fighters \in FairPoolInputs, req \in PoolRequests :
          IF Len(available_fighters) < MaxOf(P1_POOL_SIZE, OPP_POOL_SIZE)
          THEN /\ call' = [op |-> "generate_fair_pools",
                           available_fighters |-> available_fighters, request |-> req,
                           p1_scores |-> <<>>, opp_scores |-> <<>>, totals |-> <<>>,
                           searched |-> FALSE, result |-> None]
               /\ pc' = "returned"
          ELSE /\ \E p1_scores \in {ScoreList(available_fighters, req.p1_tags, req.p1_range)},
                     opp_scores \in {ScoreList(available_fighters, req.opp_tags, req.opp_range)} :
                     call' = [op |-> "generate_fair_pools",
                              available_fighters |-> available_fighters, request |-> req,
                              p1_scores |-> p1_scores, opp_scores |-> opp_scores,
                              totals |-> Totals(Ids_of(available_fighters),
                                                ScoreMap(p1_scores), ScoreMap(opp_scores),
                                                P1_POOL_SIZE, OPP_POOL_SIZE,
                                                WEIGHT_FIT, WEIGHT_FAIRNESS, win_rate_matrix),
                              searched |-> FALSE, result |-> None]
               /\ pc' = "pick_p1"
    /\ UNCHANGED <<engine, threads, elite, weights, locals>>

\* one pass of the loop of _pick_weighted_elite(p1_scores, ELITE_K)
PickP1 ==
    /\ pc = "pick_p1"
    /\ \E chosen \in Drawable(EliteCandidates(call.p1_scores, p1_elite)) :
          p1_elite' = Append(p1_elite, chosen)
    /\ pc' = IF EliteDone(call.p1_scores, p1_elite', ELITE_K) THEN "pick_opp" ELSE "pick_p1"
    /\ UNCHANGED <<engine, threads, opp_elite, weights, call, locals>>

\* one pass of the loop of _pick_weighted_elite(opp_scores, ELITE_K)
PickOpp ==
    /\ pc = "pick_opp"
    /\ \E chosen \in Drawable(EliteCandidates(call.opp_scores, opp_elite)) :
          opp_elite' = Append(opp_elite, chosen)
    /\ pc' = IF EliteDone(call.opp_scores, opp_elite', ELITE_K) THEN "search" ELSE "pick_opp"
    /\ UNCHANGED <<engine, threads, p1_elite, weights, call, locals>>

\* the combinations, the search, the final ordering and the return, at which
\* the two elite lists end with the call
FairPoolsSearch ==
    /\ pc = "search"
    /\ \E p1_combos \in {combinations(Ids_of(p1_elite), P1_POOL_SIZE)},
          opp_combos \in {combinations(Ids_of(opp_elite), OPP_POOL_SIZE)} :
          /\ fairness_map' = AfterReads(fairness_map, KeysRead(p1_combos))
          /\ \E best \in {OuterLoop(NoBest, p1_combos, opp_combos, 1, fairness_map,
                                    OPP_POOL_SIZE, call.totals)} :
                call' = [call EXCEPT
                    !.searched = TRUE,
                    !.result =
                        IF ~best.found THEN None
                        ELSE [p1_pool |-> SortPool(Members(call.available_fighters, best.p1_ids),
                                                   ScoreMap(call.p1_scores), best.opp_ids,
                                                   WEIGHT_FIT, WEIGHT_FAIRNESS, win_rate_matrix),
                              opp_pool |-> SortPool(Members(call.available_fighters, best.opp_ids),
                                                    ScoreMap(call.opp_scores), best.p1_ids,
                                                    WEIGHT_FIT, WEIGHT_FAIRNESS, win_rate_matrix),
                              total_score |-> best.max_total_score,
                              p1_ids |-> best.p1_ids,
                              opp_ids |-> best.opp_ids]]
    /\ p1_elite' = <<>>
    /\ opp_elite' = <<>>
    /\ pc' = "returned"
    /\ UNCHANGED <<fighters_db, win_rate_matrix, sizes, threads, weights, locals>>

\* a table with guaranteed results: bravo is left out of alpha's fair set but
\* not alpha out of bravo's, and charlie and delta out of each other's
GuaranteedTable ==
    MatrixOf(<<"alpha", "bravo">> :> Hundred @@ <<"bravo", "alpha">> :> Int2R(35) @@
             <<"alpha", "delta">> :> Int2R(60) @@ <<"charlie", "delta">> :> Zero)

PoolTables == {ExpandedTable, GuaranteedTable}

InitPools == \E m \in PoolTables : Construct(Expanded, m)

NextPools ==
    \/ set_mode
    \/ Return
    \/ SetPoolSizes
    \/ generate_fair_pools
    \/ PickP1
    \/ PickOpp
    \/ FairPoolsSearch

SpecPools == InitPools /\ [][NextPools]_vars

----------------------------------------------------------------------------
(* _pick_weighted_elite on score lists of its own *)

MaxEliteList == 3
MaxEliteK == 3

\* the entries of a score list: ids may repeat, weights are 0 or positive
EliteItems == {[id |-> id, score |-> s] : id \in {"alpha", "bravo", "charlie"}, s \in {Zero, One}}

EliteLists == SeqsUpTo(EliteItems, MaxEliteList)

\* _pick_weighted_elite(score_list, k) up to its loop: pool, elite, max_picks
_pick_weighted_elite ==
    /\ pc = "idle"
    /\ \E score_list \in EliteLists, k \in 0..MaxEliteK :
          call' = [op |-> "_pick_weighted_elite", score_list |-> score_list,
                   pool |-> score_list, k |-> k, result |-> <<>>]
    /\ p1_elite' = <<>>
    /\ pc' = "elite_loop"
    /\ UNCHANGED <<engine, threads, opp_elite, weights, locals>>

\* one pass of the loop: the candidates are filtered and one is drawn
ElitePass ==
    /\ pc = "elite_loop"
    /\ ~EliteDone(call.pool, p1_elite, call.k)
    /\ \E chosen \in Drawable(EliteCandidates(call.pool, p1_elite)) :
          p1_elite' = Append(p1_elite, chosen)
    /\ UNCHANGED <<engine, threads, opp_elite, weights, pc, call, locals>>

\* the loop is over (range exhausted, or break): return elite
EliteReturn ==
    /\ pc = "elite_loop"
    /\ EliteDone(call.pool, p1_elite, call.k)
    /\ call' = [call EXCEPT !.result = p1_elite]
    /\ p1_elite' = <<>>
    /\ pc' = "returned"
    /\ UNCHANGED <<engine, threads, opp_elite, weights, locals>>

InitElite == Construct(Expanded, ExpandedTable)

NextElite == _pick_weighted_elite \/ ElitePass \/ EliteReturn \/ Return

\* the function runs on: a pass or the return that is due is taken
SpecElite == InitElite /\ [][NextElite]_vars /\ WF_vars(ElitePass) /\ WF_vars(EliteReturn)

----------------------------------------------------------------------------
(* Threads sharing one engine: set_mode and a scoring loop, statement by
   statement.  Every branch of set_mode assigns WEIGHT_FAIRNESS and then
   WEIGHT_FIT; the scoring loop of generate_fair_pools reads WEIGHT_FIT and
   then WEIGHT_FAIRNESS for every combination pair it scores. *)

Threads == 1..MaxWriters

\* the modes the racing calls set: the two named ones
RaceModes == {Str("discovery"), Str("fairness")}

\* a scoring call is under way, its return included
InsideScoring == scorer.pc # "idle"

\* the scorer's history: a set_mode statement ran while the call was under way
Disturbed ==
    IF InsideScoring THEN [scorer EXCEPT !.overlapped = TRUE] ELSE scorer

\* the first assignment of set_mode: self.WEIGHT_FAIRNESS = ...
SetModeAssignFairness ==
    /\ \E t \in Threads \ DOMAIN writers.active, mode \in RaceModes :
          /\ WEIGHT_FAIRNESS' = ModeWeights(mode, CNone)[2]
          /\ writers' = [active |-> (t :> ModeWeights(mode, CNone)[1]) @@ writers.active,
                         raced |-> writers.raced \/ writers.active # <<>>]
    /\ scorer' = Disturbed
    /\ UNCHANGED <<engine, elite, WEIGHT_FIT, pc, call, locals>>

\* the second assignment of set_mode: self.WEIGHT_FIT = ...
SetModeAssignFit ==
    /\ \E t \in DOMAIN writers.active :
          /\ WEIGHT_FIT' = writers.active[t]
          /\ writers' = [writers EXCEPT
                            !.active = [u \in DOMAIN writers.active \ {t} |-> writers.active[u]]]
    /\ scorer' = Disturbed
    /\ UNCHANGED <<engine, elite, WEIGHT_FAIRNESS, pc, call, locals>>

\* a variant that reads the constructor's fit weight
DefaultFit == Rat(6, 10)

\* self.WEIGHT_FIT as the scoring statement reads it
ReadFit == WEIGHT_FIT

\* a scoring call enters its loop with n combination pairs to score
ScoreBegin ==
    /\ scorer.pc = "idle"
    /\ \E n \in 1..MaxReads :
          scorer' = [pc |-> "read_fit", left |-> n, fit |-> Zero, reads |-> <<>>,
                     overlapped |-> writers.active # <<>>]
    /\ UNCHANGED <<engine, elite, weights, writers, pc, call, locals>>

\* (self.WEIGHT_FIT * avg_fit) ...
ScoreReadFit ==
    /\ scorer.pc = "read_fit"
    /\ scorer' = [scorer EXCEPT !.fit = ReadFit, !.pc = "read_fairness"]
    /\ UNCHANGED <<engine, elite, weights, writers, pc, call, locals>>

\* ... + (self.WEIGHT_FAIRNESS * avg_fairness)
ScoreReadFairness ==
    /\ scorer.pc = "read_fairness"
    /\ scorer' = [scorer EXCEPT
                    !.reads = Append(@, <<scorer.fit, WEIGHT_FAIRNESS>>),
                    !.left = @ - 1,
                    !.pc = IF scorer.left = 1 THEN "done" ELSE "read_fit"]
    /\ UNCHANGED <<engine, elite, weights, writers, pc, call, locals>>

\* the scoring call returns
ScoreEnd ==
    /\ scorer.pc = "done"
    /\ scorer' = NoScorer
    /\ UNCHANGED <<engine, elite, weights, writers, pc, call, locals>>

InitRace == Construct(Expanded, ExpandedTable)

NextRace ==
    \/ SetModeAssignFairness
    \/ SetModeAssignFit
    \/ ScoreBegin
    \/ ScoreReadFit
    \/ ScoreReadFairness
    \/ ScoreEnd

SpecRace == InitRace /\ [][NextRace]_vars

----------------------------------------------------------------------------
(* The engine: set_mode and recommend_opponents in any order *)

ExtremeTable ==
    MatrixOf(<<"alpha", "bravo">> :> Hundred @@ <<"charlie", "bravo">> :> Rat(1, 2))

SampleTables == {FixtureTable, ExtremeTable}

Init == \E m \in SampleTables : Construct(Catalog, m)

Next == set_mode \/ recommend_opponents \/ Return

Spec == Init /\ [][Next]_vars

----------------------------------------------------------------------------
(* The engine: set_mode and generate_batch in any order *)

NextBatch ==
    \/ set_mode
    \/ Return
    \/ generate_batch
    \/ BatchSelect
    \/ BatchRaise
    \/ BatchBreak
    \/ BatchReturn
    \/ BatchTaken

SpecBatch == Init /\ [][NextBatch]_vars


\* the number a custom value denotes, when it denotes one
IsNumber(c) == ~FloatRaises(c) /\ float(c).k # "nan"
ClampedNumber(c) ==
    LET f == float(c)
    IN  IF f.k = "inf" \/ (f.k = "fin" /\ RLt(One, f.v)) THEN One
        ELSE IF f.k = "-inf" \/ RLt(f.v, Zero) THEN Zero
        ELSE f.v

\* C4: set_mode("discovery") sets (fit=0.7, fairness=0.3); set_mode("fairness")
\* sets (0.3, 0.7); set_mode("custom", r) sets fairness to r clamped into [0,1]
\* and fit to 1 minus that; set_mode("custom", <non-numeric>) falls back to
\* (fairness=0.4, fit=0.6); an unset, empty or unrecognised mode gives the
\* default (fit=0.6, fairness=0.4): whatever the weights were before the call.
C4_ModeSetsWeights ==
    call.op = "set_mode" =>
        LET mode == call.mode
            c == call.custom_fairness_weight
        IN  /\ mode = Str("discovery") =>
                  (WEIGHT_FIT = Rat(7, 10) /\ WEIGHT_FAIRNESS = Rat(3, 10))
            /\ mode = Str("fairness") =>
                  (WEIGHT_FIT = Rat(3, 10) /\ WEIGHT_FAIRNESS = Rat(7, 10))
            /\ (mode = Str("custom") /\ c.t \in {"str", "num"} /\ c # CStr("")
                  /\ IsNumber(c)) =>
                  /\ WEIGHT_FAIRNESS = ClampedNumber(c)
                  /\ RAdd(WEIGHT_FIT, WEIGHT_FAIRNESS) = One
            /\ (mode = Str("custom") /\ (c = CList \/ c \in {CStr("bad"), CStr("not-a-number")})) =>
                  (WEIGHT_FAIRNESS = Rat(4, 10) /\ WEIGHT_FIT = Rat(6, 10))
            /\ mode \in {None, Str(""), Str("turbo"), Str("Turbo")} =>
                  (WEIGHT_FIT = Rat(6, 10) /\ WEIGHT_FAIRNESS = Rat(4, 10))

\* set_mode("custom", "1.5") returned with fairness 1.0 and fit 0.0
C4_Witness ==
    /\ call.op = "set_mode"
    /\ call.mode = Str("custom")
    /\ call.custom_fairness_weight = CStr("1.5")
    /\ WEIGHT_FAIRNESS = One
    /\ WEIGHT_FIT = Zero

InUnit(x) == RLe(Zero, x) /\ RLe(x, One)

\* C5: in every reachable engine state, right after construction and after any
\* sequence of set_mode calls, both weights are in [0,1] and they sum to 1.0.
C5_WeightsSumToOne ==
    /\ InUnit(WEIGHT_FIT)
    /\ InUnit(WEIGHT_FAIRNESS)
    /\ RAdd(WEIGHT_FIT, WEIGHT_FAIRNESS) = One

\* set_mode("custom", "-0.5") returned with the ratio clamped to 0
C5_Witness ==
    /\ call.op = "set_mode"
    /\ call.mode = Str("Custom")
    /\ call.custom_fairness_weight = CStr("-0.5")
    /\ WEIGHT_FAIRNESS = Zero
    /\ WEIGHT_FIT = One

\* how often x occurs in seq
Occurrences(seq, x) == Cardinality({i \in DOMAIN seq : seq[i] = x})

\* fairnessWeight*fairness(fixed, candidate) + fitWeight*fit(candidate, tags, range),
\* for the call that returned
DocumentedScore(f) ==
    RAdd(RMul(WEIGHT_FAIRNESS,
              Fairness(_get_win_rate(win_rate_matrix, call.fighter.id, f.id))),
         RMul(WEIGHT_FIT,
              _calculate_individual_fit(f, call.opponent_tags, call.opponent_range)))

\* C9: recommend_opponents with quantity >= 0 never returns the fixed fighter,
\* returns exactly min(quantity, number of pool members other than the fixed
\* fighter) fighters, lists them in non-increasing order of the documented
\* score, which does not read the fixed fighter's tags or range, and omits no
\* candidate that scores strictly higher than a returned one.
C9_RecommendRanked ==
    call.op = "recommend_opponents" =>
        LET pool == call.available_fighters
            res == call.result
            eligible == {i \in DOMAIN pool : pool[i].id # call.fighter.id}
        IN  /\ \A i \in DOMAIN res : res[i].id # call.fighter.id
            /\ Len(res) = MinOf(call.quantity, Cardinality(eligible))
            /\ \A i \in DOMAIN candidates :
                  candidates[i].score = DocumentedScore(candidates[i].fighter)
            /\ \A i \in DOMAIN res, j \in DOMAIN res :
                  i < j => RLe(DocumentedScore(res[j]), DocumentedScore(res[i]))
            /\ \A x \in SeqRange(res) : Occurrences(res, x) <= Occurrences(pool, x)
            /\ \A x \in SeqRange(pool) :
                  (x.id # call.fighter.id /\ Occurrences(res, x) < Occurrences(pool, x))
                      => \A i \in DOMAIN res : RLe(DocumentedScore(x), DocumentedScore(res[i]))

\* the tests' case: opponents for alpha among the catalog, defensive at Reach,
\* two of them: bravo, then charlie
C9_Witness ==
    /\ call.op = "recommend_opponents"
    /\ win_rate_matrix = FixtureTable
    /\ call.fighter = alpha
    /\ call.available_fighters = Catalog
    /\ call.opponent_tags = {"defensive"}
    /\ call.opponent_range = Str("Reach")
    /\ call.quantity = 2
    /\ call.result = <<bravo, charlie>>


\* how often id is the p1 (the opp) of an entry of the batch
TimesP1(b, id) ==
    LET S == {c \in BagToSet(b) : c.p1.id = id}
    IN  BagCardinality([c \in S |-> b[c]])
TimesOpp(b, id) ==
    LET S == {c \in BagToSet(b) : c.opp.id = id}
    IN  BagCardinality([c \in S |-> b[c]])

InBatch == call.op = "generate_batch" /\ pc \in {"batch_loop", "returned"}

\* C10: after every selection step and in the returned batch no fighter id
\* appears more than 3 times as p1 and none more than 3 times as opp; each
\* side has its own counter, which holds the fighter's appearances on that side.
C10_RepeatCaps ==
    InBatch =>
        \A id \in Ids :
            /\ TimesP1(results, id) <= 3
            /\ TimesOpp(results, id) <= 3
            /\ CountOf(batch_p1_counts, id) = TimesP1(results, id)
            /\ CountOf(batch_opp_counts, id) = TimesOpp(results, id)

\* a returned batch of 6 from a pool of alpha and bravo: each is p1 3 times
\* and opp 3 times
C10_Witness ==
    /\ call.op = "generate_batch"
    /\ pc = "returned"
    /\ call.available_fighters = <<alpha, bravo>>
    /\ call.quantity = 6
    /\ BagCardinality(results) = 6
    /\ \A id \in {"alpha", "bravo"} :
          TimesP1(results, id) = 3 /\ TimesOpp(results, id) = 3

----------------------------------------------------------------------------
(* C11: a feasible batch is delivered in full *)

DistinctIds(pool) == {pool[i].id : i \in DOMAIN pool}

\* some list of n ordered pairs of distinct pool fighters respects the cap on
\* each side: with k >= 2 distinct fighters the cycle (f1,f2), (f2,f3), ...,
\* (fk,f1), each pair MAX_REPEATS times, is the longest such list
Feasible(pool, n) ==
    \/ n = 0
    \/ /\ Cardinality(DistinctIds(pool)) >= 2
       /\ n <= MAX_REPEATS * Cardinality(DistinctIds(pool))

BatchReturned == call.op = "generate_batch" /\ pc = "returned" /\ ~call.raised

\* C11: whenever the requested quantity is feasible for the pool, the batch
\* generate_batch returns has exactly that many entries, whatever the draws.
C11_FeasibleBatchIsFull ==
    (BatchReturned /\ Feasible(call.available_fighters, call.quantity)) =>
        BagCardinality(results) = call.quantity

----------------------------------------------------------------------------
(* C12 - C14: generate_fair_pools *)

InFairPools == call.op = "generate_fair_pools"
PoolsReturned == InFairPools /\ pc = "returned"
PoolIds(pool) == {pool[i].id : i \in DOMAIN pool}

\* C12: with fewer available fighters than the larger of the two configured
\* sizes, generate_fair_pools returns None at once: it never reaches the
\* scoring, the elite sampling or the search, and no elite entry is drawn.
C12_NullWhenPoolTooSmall ==
    (/\ InFairPools
     /\ \/ Len(call.available_fighters) < P1_POOL_SIZE
        \/ Len(call.available_fighters) < OPP_POOL_SIZE) =>
        /\ pc = "returned"
        /\ call.result = None
        /\ call.p1_scores = <<>> /\ call.opp_scores = <<>>
        /\ ~call.searched
        /\ p1_elite = <<>> /\ opp_elite = <<>>

\* under the default sizes 4 and 3, a pool of 3: enough for side B alone
C12_Witness ==
    /\ PoolsReturned
    /\ P1_POOL_SIZE = 4 /\ OPP_POOL_SIZE = 3
    /\ Len(call.available_fighters) = 3
    /\ call.result = None

\* the fighter of the call's pool with this id
PoolFighter(id) ==
    call.available_fighters[CHOOSE i \in DOMAIN call.available_fighters :
                                call.available_fighters[i].id = id]

\* fitWeight*avgFit + fairnessWeight*avgFairness of a combination pair, from
\* the fits of the members and the fairness of every cross pair
DocumentedTotal(A, B) ==
    LET fitA == RSum([i \in DOMAIN A |->
                        _calculate_individual_fit(PoolFighter(A[i]), call.request.p1_tags,
                                                  call.request.p1_range)])
        fitB == RSum([j \in DOMAIN B |->
                        _calculate_individual_fit(PoolFighter(B[j]), call.request.opp_tags,
                                                  call.request.opp_range)])
        avgFit == RDiv(RAdd(fitA, fitB), Int2R(Len(A) + Len(B)))
        cross == [k \in 1..(Len(A) * Len(B)) |->
                    Fairness(_get_win_rate(win_rate_matrix,
                                           A[((k - 1) \div Len(B)) + 1],
                                           B[((k - 1) % Len(B)) + 1]))]
        avgFairness == RDiv(RSum(cross), Int2R(Len(A) * Len(B)))
    IN  RAdd(RMul(WEIGHT_FIT, avgFit), RMul(WEIGHT_FAIRNESS, avgFairness))

\* the fairness-adjacency check: every member of B is in the fair set of every
\* member of A
PassesCheck(A, B) ==
    \A i \in DOMAIN A, j \in DOMAIN B : B[j] \in fairSet(fairness_map, A[i])

\* the scores the search compares are the documented totals
TotalsAreDocumented ==
    (InFairPools /\ pc = "pick_p1" /\ p1_elite = <<>>) =>
        \A i \in DOMAIN combinations(Ids_of(call.available_fighters), P1_POOL_SIZE),
           j \in DOMAIN combinations(Ids_of(call.available_fighters), OPP_POOL_SIZE) :
            LET A == combinations(Ids_of(call.available_fighters), P1_POOL_SIZE)[i]
                B == combinations(Ids_of(call.available_fighters), OPP_POOL_SIZE)[j]
            IN  call.totals[<<SeqRange(A), SeqRange(B)>>] = DocumentedTotal(A, B)

\* with at most ELITE_K fighters in the pool each elite set is the whole pool
ElitesAreWholePool ==
    (InFairPools /\ pc = "search" /\ Len(call.available_fighters) <= ELITE_K) =>
        /\ SeqRange(Ids_of(p1_elite)) = PoolIds(call.available_fighters)
        /\ SeqRange(Ids_of(opp_elite)) = PoolIds(call.available_fighters)

\* position (i, j) comes before (k, l) in the enumeration of the pairs
Before(i, j, k, l) == i < k \/ (i = k /\ j < l)

\* the search step returns the first enumerated pair of maximal total among
\* the pairs that pass the check, and None when no pair passes
SearchKeepsFirstMaximum ==
    (pc = "search" /\ pc' = "returned") =>
        \E As \in {combinations(Ids_of(p1_elite), P1_POOL_SIZE)},
           Bs \in {combinations(Ids_of(opp_elite), OPP_POOL_SIZE)} :
            \E V \in {{p \in (DOMAIN As) \X (DOMAIN Bs) : PassesCheck(As[p[1]], Bs[p[2]])}} :
                IF V = {} THEN call'.result = None
                ELSE /\ call'.result # None
                     /\ \E p \in V :
                           /\ call'.result.p1_ids = As[p[1]]
                           /\ call'.result.opp_ids = Bs[p[2]]
                           /\ call'.result.total_score =
                                 call.totals[<<SeqRange(As[p[1]]), SeqRange(Bs[p[2]])>>]
                           /\ \A q \in V :
                                 LET tq == call.totals[<<SeqRange(As[q[1]]), SeqRange(Bs[q[2]])>>]
                                 IN  \/ RLt(tq, call'.result.total_score)
                                     \/ /\ tq = call'.result.total_score
                                        /\ ~Before(q[1], q[2], p[1], p[2])
                     /\ Len(call'.result.p1_pool) = P1_POOL_SIZE
                     /\ PoolIds(call'.result.p1_pool) = SeqRange(call'.result.p1_ids)
                     /\ Len(call'.result.opp_pool) = OPP_POOL_SIZE
                     /\ PoolIds(call'.result.opp_pool) = SeqRange(call'.result.opp_ids)

C14_CrossPairsAreFair ==
    (PoolsReturned /\ call.result # None) =>
        \A i \in DOMAIN call.result.p1_pool, j \in DOMAIN call.result.opp_pool :
            call.result.opp_pool[j].id \in fairSet(fairness_map, call.result.p1_pool[i].id)

\* pools returned from a pool in which some fighter is outside another's fair set
C14_Witness ==
    /\ PoolsReturned
    /\ call.result # None
    /\ \E a \in PoolIds(call.available_fighters), b \in PoolIds(call.available_fighters) :
          /\ a # b
          /\ a \in DOMAIN fairness_map
          /\ b \in SeqIds(fighters_db)
          /\ b \notin fairSet(fairness_map, a)

----------------------------------------------------------------------------
(* C15: no operation ends in an exception *)

\* C15: generate_batch completes normally under every weight pair set_mode
\* reaches, for every pool and quantity: no call ends by raising.
C15_NoOperationRaises ==
    (call.op = "generate_batch" /\ pc = "returned") => ~call.raised

----------------------------------------------------------------------------
(* C16: what the operations change *)

\* a step of set_mode: the call that starts at "idle" and is recorded as set_mode
IsSetModeStep == pc = "idle" /\ call'.op = "set_mode"

\* C16: no step changes the catalog, the win-rate table or the fairness map
\* (its keys and its sets), the weights change only in a step of set_mode, and
\* a step of set_mode leaves the pool sizes as they were.
C16_OnlySetModeChangesEngine ==
    [][/\ fighters_db' = fighters_db
       /\ win_rate_matrix' = win_rate_matrix
       /\ fairness_map' = fairness_map
       /\ (weights' # weights => IsSetModeStep)
       /\ (IsSetModeStep => sizes' = sizes)]_vars

----------------------------------------------------------------------------
(* C18: set_mode racing with a scoring call *)

ScoringDone == scorer.pc = "done"

\* C18: a scoring call that no set_mode statement overlapped (none was under
\* way when it started, none ran before it returned) has read the one weight
\* pair in force, unchanged throughout, for every pair it scored, and unless two
\* set_mode calls have overlapped each other that pair is a configured one: fit
\* and fairness weight sum to 1.
C18_QuiescentCallUsesOnePair ==
    (ScoringDone /\ ~scorer.overlapped) =>
        /\ \A i \in DOMAIN scorer.reads : scorer.reads[i] = <<WEIGHT_FIT, WEIGHT_FAIRNESS>>
        /\ ~writers.raced => RAdd(WEIGHT_FIT, WEIGHT_FAIRNESS) = One

\* the race: with one set_mode at a time, a scoring call that a set_mode
\* overlapped has read a fit and a fairness weight that do not sum to 1, and
\* has not used the same pair for all its pairs
C18_Witness ==
    /\ ScoringDone
    /\ ~writers.raced
    /\ \E i \in DOMAIN scorer.reads : RAdd(scorer.reads[i][1], scorer.reads[i][2]) # One
    /\ \E i \in DOMAIN scorer.reads, j \in DOMAIN scorer.reads : scorer.reads[i] # scorer.reads[j]

----------------------------------------------------------------------------
(* C19, C20: the fit formula *)

FitCalled == call.op = "_calculate_individual_fit"

\* in tenths: 1.7 per major tag and 1.0 per minor tag
Tenths(majors, minors) == 17 * Cardinality(majors) + 10 * Cardinality(minors)

\* 0.4*matchRatio + 0.6*coverageScore for the call's fighter and request
DocumentedTagScore ==
    LET weightedMatches == Tenths(call.fighter.major \cap call.requested_tags,
                                  call.fighter.minor \cap call.requested_tags)
        fighterTotal == Tenths(call.fighter.major, call.fighter.minor)
        requestedTotal == Tenths(call.requested_tags, {})
    IN  IF fighterTotal = 0 THEN Zero
        ELSE RAdd(Rat(4 * weightedMatches, 10 * fighterTotal),
                  Rat(6 * weightedMatches, 10 * requestedTotal))

\* 1 - |fighterRange - prefRange| / 4
DocumentedRangeScore ==
    Rat(4 - Abs(RangeGet(call.fighter.range) - RangeGet(call.range_pref)), 4)

RangeSkipped ==
    /\ ~call.raised
    /\ call.result = TagScore(call.fighter, call.requested_tags)
    /\ \A r \in RangeFields :
          LET other == [call.fighter EXCEPT !.range = r]
          IN  /\ ~FitRaises(other, call.range_pref)
              /\ _calculate_individual_fit(other, call.requested_tags, call.range_pref)
                    = call.result

\* C20 as stated: the range component is skipped exactly when there is no
\* preference (None or 0), the preference is empty, or it is the any-sentinel,
\* written "any" or "Any".
C20_SkippedForAnySentinel ==
    FitCalled =>
        (RangeSkipped <=> call.range_pref \in {None, Num(0), Str(""), Str("Any"), Str("any")})

\* the preferences that count as none: None, "", 0 and "Any" as written
NoPreference == {None, Str(""), Num(0), Str("Any")}

\* C20 as amended: the range component is skipped exactly when the preference
\* is None, empty, 0 or the string "Any" in this spelling; every other
\* preference, "any" included, is active and mapped to a level in 1..5.
C20_SkippedForAnyOrFalsy ==
    FitCalled =>
        /\ RangeSkipped <=> call.range_pref \in NoPreference
        /\ call.range_pref \notin NoPreference => RangeGet(call.range_pref) \in Levels

\* the preference "any" was active: a fighter at range Ranged with no request
\* got 0.4*0.5 + 0.6*0 = 0.2, as for the preference Melee
C20_Witness ==
    /\ FitReturned
    /\ call.range_pref = Str("any")
    /\ call.fighter.range = Str("Ranged")
    /\ call.requested_tags = {}
    /\ call.result = Rat(2, 10)

----------------------------------------------------------------------------
(* C21: range values that denote no level *)

\* C21: with an active range preference the fit call completes for every value
\* of the fighter's range field, and both operands of the distance are levels
\* in 1..5.
C21_RangeNeverRaises ==
    (FitCalled /\ RangeActive(call.range_pref)) =>
        /\ ~call.raised
        /\ RangeGet(call.fighter.range) \in Levels
        /\ RangeGet(call.range_pref) \in Levels

----------------------------------------------------------------------------
(* C22: the weights a scoring call uses *)

\* fitWeight*(fit(A)+fit(B))/2 + fairnessWeight*(1 - |winRate(A,B) - 50|/50)
\* for a pair of a batch call with this request, with the weights now in force
DocumentedPairScore(c, req) ==
    LET fitA == _calculate_individual_fit(c.p1, req.p1_tags, req.p1_range)
        fitB == _calculate_individual_fit(c.opp, req.opp_tags, req.opp_range)
        winRate == _get_win_rate(win_rate_matrix, c.p1.id, c.opp.id)
        off == IF RLt(winRate, Fifty) THEN RSub(Fifty, winRate) ELSE RSub(winRate, Fifty)
    IN  RAdd(RMul(WEIGHT_FIT, RDiv(RAdd(fitA, fitB), Int2R(2))),
             RMul(WEIGHT_FAIRNESS, RSub(One, RDiv(off, Fifty))))

\* the step that scores the pairs of a batch call gives each one the documented
\* score under the weights in force at the step
PairsAreDocumented ==
    (pc = "idle" /\ call'.op = "generate_batch") =>
        \A i \in DOMAIN all_candidates' :
            /\ all_candidates'[i].score =
                  DocumentedPairScore(all_candidates'[i], call'.request)
            /\ all_candidates'[i].win_rate =
                  _get_win_rate(win_rate_matrix, all_candidates'[i].p1.id,
                                all_candidates'[i].opp.id)

\* while the call runs, the scored pairs stay as they are
PairsAreKept ==
    (call.op = "generate_batch" /\ call'.op = "generate_batch") =>
        all_candidates' = all_candidates

\* the weights change in a set_mode call only, to the pair that call configures
WeightsAreLastSetMode ==
    weights' # weights =>
        /\ pc = "idle" /\ call'.op = "set_mode"
        /\ <<WEIGHT_FIT', WEIGHT_FAIRNESS'>> =
              ModeWeights(call'.mode, call'.custom_fairness_weight)

\* C22: the weights are 0.6/0.4 after construction and change only in a
\* set_mode call, and every pair a batch call scores carries
\* fitWeight*(fit(A)+fit(B))/2 + fairnessWeight*(1 - |winRate - 50|/50) with the
\* weights in force, so each score reflects the last set_mode before the call.
C22_ScoresUseCurrentWeights ==
    /\ (WEIGHT_FIT = Rat(6, 10) /\ WEIGHT_FAIRNESS = Rat(4, 10))
    /\ [][PairsAreDocumented /\ PairsAreKept /\ WeightsAreLastSetMode]_vars

\* a batch scored after set_mode("fairness"): alpha against bravo at 60% carries
\* 0.3*(1 + 1)/2 + 0.7*0.8 = 0.86
C22_Witness ==
    /\ call.op = "generate_batch"
    /\ WEIGHT_FIT = Rat(3, 10) /\ WEIGHT_FAIRNESS = Rat(7, 10)
    /\ win_rate_matrix = FixtureTable
    /\ \E i \in DOMAIN all_candidates :
          /\ all_candidates[i].p1 = alpha /\ all_candidates[i].opp = bravo
          /\ all_candidates[i].score = Rat(86, 100)

----------------------------------------------------------------------------
(* C23: ties in recommend_opponents *)

\* C23: among the candidates of a recommend_opponents call that carry one
\* score, the order is the order of the input pool, and the result is the
\* front of that list, so a cut between tied candidates keeps the earlier ones:
\* the pool member at eligible position i stands behind the members that score
\* more and the earlier members that score the same, and nowhere else.
C23_TiesKeepPoolOrder ==
    call.op = "recommend_opponents" =>
        \E eligible \in {SelectSeq(call.available_fighters,
                                   LAMBDA f : f.id # call.fighter.id)} :
        \E scored \in {{<<i, DocumentedScore(eligible[i])>> : i \in DOMAIN eligible}} :
            /\ Len(candidates) = Len(eligible)
            /\ \A p \in scored :
                  LET place == Cardinality({q \in scored :
                                    \/ RLt(p[2], q[2])
                                    \/ q[2] = p[2] /\ q[1] <= p[1]})
                  IN  /\ candidates[place].fighter = eligible[p[1]]
                      /\ candidates[place].score = p[2]
            /\ \A i \in DOMAIN call.result : call.result[i] = candidates[i].fighter
            /\ Len(call.result) = MinOf(call.quantity, Len(candidates))

\* charlie and bravo tie as opponents of alpha, charlie is first in the pool,
\* and the cut to one keeps charlie
C23_Witness ==
    /\ call.op = "recommend_opponents"
    /\ call.fighter = alpha
    /\ call.available_fighters = <<charlie, alpha, bravo>>
    /\ Len(candidates) = 2
    /\ candidates[1].score = candidates[2].score
    /\ call.quantity = 1
    /\ call.result = <<charlie>>

----------------------------------------------------------------------------
(* C24: the pruned search against an unpruned one *)

\* the pairs of positions the pruned search scores: the side-A combination is
\* not skipped, and the side-B combination lies inside its universe
PrunedScored(As, Bs) ==
    {p \in (DOMAIN As) \X (DOMAIN Bs) :
        \E valid_opp_universe \in {ValidOppUniverse(fairness_map, As[p[1]])} :
            /\ Cardinality(valid_opp_universe) >= OPP_POOL_SIZE
            /\ IsSubset(Bs[p[2]], valid_opp_universe)}

\* the pairs of positions a search scores that tests every cross pair
UnprunedScored(As, Bs) ==
    {p \in (DOMAIN As) \X (DOMAIN Bs) :
        \A a \in SeqRange(As[p[1]]), b \in SeqRange(Bs[p[2]]) :
            b \in fairSet(fairness_map, a)}

RECURSIVE UnprunedSearch(_, _, _, _)
\* the search without pruning, from the k-th pair of the enumeration on: every
\* pair is tested cross pair by cross pair and kept when it scores strictly more
UnprunedSearch(best, As, Bs, k) ==
    IF k > Len(As) * Len(Bs) THEN best
    ELSE LET i == ((k - 1) \div Len(Bs)) + 1
             j == ((k - 1) % Len(Bs)) + 1
             total == call.totals[<<SeqRange(As[i]), SeqRange(Bs[j])>>]
             fair == \A a \in SeqRange(As[i]), b \in SeqRange(Bs[j]) :
                        b \in fairSet(fairness_map, a)
             next == IF fair /\ RLt(best.max_total_score, total)
                     THEN [found |-> TRUE, max_total_score |-> total,
                           p1_ids |-> As[i], opp_ids |-> Bs[j]]
                     ELSE best
         IN  UnprunedSearch(next, As, Bs, k + 1)

SearchEqualsUnpruned ==
    (pc = "search" /\ pc' = "returned") =>
        \E As \in {combinations(Ids_of(p1_elite), P1_POOL_SIZE)},
           Bs \in {combinations(Ids_of(opp_elite), OPP_POOL_SIZE)} :
            /\ PrunedScored(As, Bs) = UnprunedScored(As, Bs)
            /\ \E best \in {UnprunedSearch([found |-> FALSE, max_total_score |-> Int2R(-1)],
                                           As, Bs, 1)} :
                  IF ~best.found THEN call'.result = None
                  ELSE /\ call'.result # None
                       /\ call'.result.p1_ids = best.p1_ids
                       /\ call'.result.opp_ids = best.opp_ids
                       /\ call'.result.total_score = best.max_total_score

\* C24: for the same elite sets and weights the pruned search scores the same
\* combination pairs as a search that tests every cross pair (a, b) for b in
\* fairSet(a), and returns the same pools and total, or None alike.
C24_PruningIsExact == [][SearchEqualsUnpruned]_vars

\* pools were found in a pool where one side-A combination is skipped for its
\* small universe and a side-B combination falls outside another's universe
C24_Witness ==
    /\ PoolsReturned
    /\ call.result # None
    /\ \E As \in {combinations(Ids_of(call.available_fighters), P1_POOL_SIZE)},
          Bs \in {combinations(Ids_of(call.available_fighters), OPP_POOL_SIZE)} :
          /\ \E i \in DOMAIN As :
                Cardinality(ValidOppUniverse(fairness_map, As[i])) < OPP_POOL_SIZE
          /\ \E i \in DOMAIN As, j \in DOMAIN Bs :
                /\ Cardinality(ValidOppUniverse(fairness_map, As[i])) >= OPP_POOL_SIZE
                /\ ~(SeqRange(Bs[j]) \subseteq ValidOppUniverse(fairness_map, As[i]))

----------------------------------------------------------------------------
(* C25: the internal ordering of the winning pools *)

\* fitWeight*ownFitScore + fairnessWeight*(average fairness against every
\* member of the opposing pool)
OrderingScore(f, tags, range, opposing) ==
    LET fairness == [k \in DOMAIN opposing |->
                        LET w == _get_win_rate(win_rate_matrix, f.id, opposing[k].id)
                            off == IF RLt(w, Fifty) THEN RSub(Fifty, w) ELSE RSub(w, Fifty)
                        IN  RSub(One, RDiv(off, Fifty))]
    IN  RAdd(RMul(WEIGHT_FIT, _calculate_individual_fit(f, tags, range)),
             RMul(WEIGHT_FAIRNESS, RDiv(RSum(fairness), Int2R(Len(opposing)))))

\* pool holds the members of the call's pool with these ids, each once
IsPermutationOfMembers(pool, ids) ==
    /\ Len(pool) = Cardinality({i \in DOMAIN call.available_fighters :
                                   call.available_fighters[i].id \in SeqRange(ids)})
    /\ SeqRange(pool) = {f \in SeqRange(call.available_fighters) : f.id \in SeqRange(ids)}

NonIncreasing(pool, tags, range, opposing) ==
    \A i \in DOMAIN pool, j \in DOMAIN pool :
        i < j => RLe(OrderingScore(pool[j], tags, range, opposing),
                     OrderingScore(pool[i], tags, range, opposing))

\* C25: each returned pool holds exactly the members of the winning
\* combination, and lists them in non-increasing order of fitWeight*ownFitScore
\* + fairnessWeight*(average fairness against the opposing pool), so index 0
\* has the maximal ordering score of its pool.
C25_OrderingPermutesAndRanks ==
    (PoolsReturned /\ call.result # None) =>
        LET r == call.result
        IN  /\ IsPermutationOfMembers(r.p1_pool, r.p1_ids)
            /\ IsPermutationOfMembers(r.opp_pool, r.opp_ids)
            /\ NonIncreasing(r.p1_pool, call.request.p1_tags, call.request.p1_range, r.opp_pool)
            /\ NonIncreasing(r.opp_pool, call.request.opp_tags, call.request.opp_range, r.p1_pool)

\* a returned p1_pool of two whose headline comes second in the input list and
\* scores strictly more than the other member
C25_Witness ==
    /\ PoolsReturned
    /\ call.result # None
    /\ Len(call.result.p1_pool) = 2
    /\ call.result.p1_pool # Members(call.available_fighters, call.result.p1_ids)
    /\ RLt(OrderingScore(call.result.p1_pool[2], call.request.p1_tags,
                         call.request.p1_range, call.result.opp_pool),
           OrderingScore(call.result.p1_pool[1], call.request.p1_tags,
                         call.request.p1_range, call.result.opp_pool))

----------------------------------------------------------------------------
(* C26: elite selection *)

InElite == call.op = "_pick_weighted_elite"

\* the number of distinct ids of a score list
DistinctCount(score_list) == Cardinality({score_list[i].id : i \in DOMAIN score_list})

\* what a finished call has returned
EliteResultIsSample ==
    (InElite /\ pc = "returned") =>
        /\ Len(call.result) = MinOf(call.k, DistinctCount(call.score_list))
        /\ \A i \in DOMAIN call.result : call.result[i] \in SeqRange(call.score_list)
        /\ \A i \in DOMAIN call.result, j \in DOMAIN call.result :
              i # j => call.result[i].id # call.result[j].id
        /\ call.pool = call.score_list

\* one pass draws an entry whose id is not used yet, of weight 0 only when no
\* remaining entry has a positive weight, and leaves the input list alone
DrawIsWeighted ==
    (pc = "elite_loop" /\ pc' = "elite_loop") =>
        LET chosen == p1_elite'[Len(p1_elite')]
            used == {p1_elite[i].id : i \in DOMAIN p1_elite}
            unused == {x \in SeqRange(call.score_list) : x.id \notin used}
        IN  /\ p1_elite' = Append(p1_elite, chosen)
            /\ chosen \in unused
            /\ ~RLt(Zero, chosen.score) => \A x \in unused : ~RLt(Zero, x.score)
            /\ call'.score_list = call.score_list

\* C26: _pick_weighted_elite(list, k) terminates and returns exactly min(k, n)
\* entries of the list, n being its number of distinct ids, with pairwise
\* distinct ids; the input list is left unchanged; an entry of weight 0 is
\* drawn only at a pass where every remaining entry has weight 0.
C26_EliteIsSampleWithoutReplacement ==
    /\ [](EliteResultIsSample)
    /\ [][DrawIsWeighted]_vars
    /\ ((InElite /\ pc = "elite_loop") ~> (InElite /\ pc = "returned"))

\* the entry in the last position was drawn first, and the loop broke after
\* two picks of three: the list holds only two distinct ids
C26_Witness ==
    /\ InElite /\ pc = "returned"
    /\ call.k = 3
    /\ call.score_list = <<[id |-> "alpha", score |-> One], [id |-> "alpha", score |-> Zero],
                           [id |-> "charlie", score |-> One]>>
    /\ call.result = <<[id |-> "charlie", score |-> One], [id |-> "alpha", score |-> One]>>

----------------------------------------------------------------------------
(* C27: the two pools share no fighter *)

\* C27: no fighter is in its own fair set, and the two pools a
\* generate_fair_pools call returns have no id in common.
C27_PoolsAreDisjoint ==
    /\ \A id \in DOMAIN fairness_map : id \notin fairness_map[id]
    /\ (PoolsReturned /\ call.result # None) =>
          PoolIds(call.result.p1_pool) \cap PoolIds(call.result.opp_pool) = {}

\* pools of two and two out of a pool of four: every fighter was in both elite
\* sets, and the pools split the pool
C27_Witness ==
    /\ PoolsReturned
    /\ call.result # None
    /\ Len(call.available_fighters) = 4
    /\ Len(call.result.p1_pool) = 2 /\ Len(call.result.opp_pool) = 2
    /\ PoolIds(call.result.p1_pool) \cup PoolIds(call.result.opp_pool)
          = PoolIds(call.available_fighters)

----------------------------------------------------------------------------
(* C28: pools too small for both sides *)

\* the distinct catalog fighters of the call's pool
CatalogIdsOfPool == PoolIds(call.available_fighters) \cap SeqIds(fighters_db)

\* C28: a pool with fewer than sizeA + sizeB distinct catalog fighters gets the
\* result None, whether the size check stops the call or the search finds
\* nothing, for every outcome of the elite sampling.
C28_NullBelowBothSizes ==
    (PoolsReturned /\ Cardinality(CatalogIdsOfPool) < P1_POOL_SIZE + OPP_POOL_SIZE) =>
        call.result = None

\* under the default sizes 4 and 3 a pool of four catalog fighters passes the
\* size check, is scored, sampled and searched, and gets None
C28_Witness ==
    /\ PoolsReturned
    /\ P1_POOL_SIZE = 4 /\ OPP_POOL_SIZE = 3
    /\ Cardinality(CatalogIdsOfPool) = 4
    /\ call.searched
    /\ call.result = None

----------------------------------------------------------------------------
(* C29: how short a batch can be *)

\* the pool of the call: its fighters are pairwise distinct, at least two, and
\* some pair has a positive score
ScoredPoolOfDistinct ==
    /\ Len(call.available_fighters) = Cardinality(DistinctIds(call.available_fighters))
    /\ Len(call.available_fighters) >= 2
    /\ \E i \in DOMAIN all_candidates : all_candidates[i].score # Zero

\* C29: for a pool of n >= 2 distinct fighters whose pair scores are not all
\* zero, a generate_batch call that is over has returned a batch of at least
\* min(quantity, 3*(n-1)) entries, whatever the draws were.
C29_BatchLowerBound ==
    (call.op = "generate_batch" /\ pc = "returned" /\ ScoredPoolOfDistinct) =>
        /\ ~call.raised
        /\ BagCardinality(results) >=
              MinOf(call.quantity, MAX_REPEATS * (Len(call.available_fighters) - 1))

----------------------------------------------------------------------------
(* C30: ties in the internal ordering *)

\* the position of a fighter in the call's input list
InputPosition(f) ==
    CHOOSE i \in DOMAIN call.available_fighters : call.available_fighters[i] = f

\* tied members of pool are in the order of the input list
TiesInInputOrder(pool, tags, range, opposing) ==
    \A i \in DOMAIN pool, j \in DOMAIN pool :
        (i < j /\ OrderingScore(pool[i], tags, range, opposing)
                    = OrderingScore(pool[j], tags, range, opposing))
            => InputPosition(pool[i]) < InputPosition(pool[j])

====
